---- MODULE Spec2Model ----
(***************************************************************************)
(* A model of the django_multimedia request handlers (accounts, projects,  *)
(* media) over the relational store they read and write.                   *)
(*                                                                         *)
(* The store is one variable per table.  Every view of the source is an    *)
(* operator view(db, request inputs) that returns the store after the      *)
(* request and the response (redirect / render / not found, with the       *)
(* message the view queued); the action of the same name in CamelCase      *)
(* applies it to the current store.  A request handled by the sequential   *)
(* specification Spec runs to completion before the next one starts.       *)
(***************************************************************************)
EXTENDS Integers, FiniteSets, Sequences, TLC

VARIABLES
    users,        \* the usernames of the auth.User rows (what the views look users up by)
    auth_user,    \* auth.User rows (set): id, username, email
    projects,     \* projects.Project rows:  slug -> row
    teams,        \* accounts.Team rows:     pk -> row
    memberships,  \* accounts.TeamMembership rows (set)
    media,        \* media.MediaAsset rows:  pk -> row
    media_seq,    \* last pk handed out for media.MediaAsset (AutoField)
    assocs,       \* media.ProjectMediaAssociation rows (set)
    likes,        \* projects.ProjectLike rows (set)
    comments,     \* projects.ProjectComment rows (set)
    inflight,     \* the requests being handled concurrently: request -> position and locals
    now,          \* the wall clock read by timezone.now()
    resp          \* the response to the most recent request

vars == <<users, auth_user, projects, teams, memberships, media, media_seq, assocs, likes,
          comments, inflight, now, resp>>

----------------------------------------------------------------------------
(* Bounds of the model *)

\* Number of MediaAsset primary keys ever handed out.
MaxMedia == 2
\* Largest clock value.
MaxTime == 1
\* Cap on Project.view_count (project_detail is not taken beyond it).
MaxViews == 1
\* Cap on Project.like_count (no project_like request starts beyond it).
MaxLikes == 2
\* Number of ProjectComment rows (project_comment is not taken beyond it).
MaxComments == 1

(* Program constants *)
MAX_UPLOAD_SIZE == 104857600

ALLOWED_FILE_TYPES == {"jpg", "jpeg", "png", "gif", "pdf", "mp4", "mp3", "webm", "doc", "docx"}

STATUS_CHOICES == {"draft", "published", "archived"}

ROLE_CHOICES == {"owner", "editor", "viewer", "commenter"}

----------------------------------------------------------------------------
(* Request inputs *)

\* A nullable column holds None or Some(v).
None == {}
Some(v) == {v}
Val(col) == CHOOSE v \in col : TRUE

\* Usernames, and the actor of a request without a session.
Users == {"alice", "bob", "carol"}
AnonymousUser == "AnonymousUser"

\* The email address each of them registered with.
EmailOf == [alice |-> "alice@example.com", bob |-> "bob@example.com", carol |-> "carol@example.com"]

\* The requests the server handles at the same time (one worker each).
Requests == {"r1", "r2"}
\* A worker that handles no request.
Idle == [view |-> "none", pc |-> "idle"]

Methods == {"GET", "POST"}

\* Project titles a request may carry ("" is a missing title).
Titles == {"", "Logo", "Site"}
\* Team names a request may carry ("" is a missing name).
TeamNames == {"", "Design"}
\* Usernames a team_add_member request may carry ("nobody" is not registered).
Usernames == Users \cup {"nobody"}
\* Role strings a team_add_member request may carry ("guest" is no ROLE_CHOICES entry;
\* TeamMembership.objects.create does not validate choices).
RoleInputs == ROLE_CHOICES \cup {"guest"}
\* caption / is_cover pairs an add_media_to_project request may carry.
AssocInputs == {[caption |-> "", is_cover |-> FALSE], [caption |-> "cover shot", is_cover |-> TRUE]}
\* Uploaded files (extension, size in bytes); NoFile is a request without a file.
NoFile == [ext |-> "", size |-> 0]
Files == {NoFile} \cup [ext : {"png", "exe"}, size : {1024, MAX_UPLOAD_SIZE + 1}]
\* Comment texts a project_comment request may carry, and str.strip() on them.
Contents == {"", "  ", "Nice"}
strip(content) == IF content = "  " THEN "" ELSE content

\* Usernames, email addresses and password / password_confirm pairs a register
\* request may carry ("" is a missing field).
NewUsernames == {"", "alice", "dave", "erin"}
NewEmails == {"", "alice@example.com", "dave@example.com"}
Passwords == {[password |-> "pw", password_confirm |-> "pw"],
              [password |-> "pw", password_confirm |-> "other"],
              [password |-> "", password_confirm |-> ""]}

\* Where a statement of team_create may raise a persistence error.
Faults == {"none", "team_insert", "membership_insert"}

\* django.utils.text.slugify on the titles above.
slugify(title) ==
    CASE title = "Logo" -> "logo"
      [] title = "Site" -> "site"
      [] OTHER -> ""

Slugs == {slugify(t) : t \in Titles} \ {""}
MediaIds == 1..MaxMedia
TeamIds == 1..Cardinality(TeamNames \ {""})

\* request.GET of browse_projects.  Category, description and tags are columns
\* the store does not carry, so a category slug or a search term is given by
\* the set of projects it matches (None: the parameter is absent).  sort is
\* passed to order_by as it comes; "bogus" names no field of Project.
Matches == {None} \cup {Some(m) : m \in SUBSET Slugs}
SortInputs == {"-created_at", "title", "bogus"}
SortFields == {"-created_at", "title"}

\* The profile row of the user whose portfolio is asked for: its
\* is_public_portfolio flag, or no row at all (the signal that creates it is
\* not in accounts/).
Portfolios == {"public", "private", "missing"}

----------------------------------------------------------------------------
(* The store as one value, and responses *)

DB == [users |-> users, auth_user |-> auth_user, projects |-> projects, teams |-> teams,
       memberships |-> memberships, media |-> media, media_seq |-> media_seq, assocs |-> assocs,
       likes |-> likes, comments |-> comments]

Response(view, kind, level, text) == [view |-> view, kind |-> kind, level |-> level, text |-> text]

Result(db, r) == [db |-> db, resp |-> r]

\* The implicit AutoField primary key of a new row.  The code compares primary
\* keys for equality only: all they add to a row is that two rows with the same
\* columns are two rows.  The model therefore numbers a new row among the rows
\* present that carry the same key columns (same), starting from 1.
NextId(same) ==
    LET used == {r.id : r \in same}
    IN  CHOOSE k \in 1..(Cardinality(used) + 1) :
            k \notin used /\ \A j \in 1..(k - 1) : j \in used

\* Who may send a request: a registered user's session, or nobody's.
Actors == users \cup {AnonymousUser}

\* django.contrib.auth: request.user.is_authenticated
is_authenticated(user) == user # AnonymousUser

\* @login_required: an anonymous request is redirected to the login page.
LoginRedirect(db, view) == Result(db, Response(view, "redirect_login", "none", ""))

\* get_object_or_404 / raise Http404 outside any try block.
NotFound(db, view) == Result(db, Response(view, "not_found", "none", ""))

----------------------------------------------------------------------------
(* accounts/models.py *)

\* Variants of is_member with a plausible slip: only editing roles count as
\* members; nobody counts as a member.
is_member_editors_only(db, team, user) ==
    \E m \in db.memberships : m.team = team /\ m.user = user /\ m.role \in {"owner", "editor"}

is_member_never(db, team, user) == FALSE

\* Team.is_member: self.members.filter(pk=user.pk).exists()
is_member(db, team, user) ==
    \E m \in db.memberships : m.team = team /\ m.user = user

\* Variant of TeamMembership.can_edit with a plausible slip: every role edits.
TeamMembership_can_edit_any_role(self) == self.role \in ROLE_CHOICES

\* TeamMembership.can_edit
TeamMembership_can_edit(self) == self.role \in {"owner", "editor"}

\* TeamMembership.can_view
TeamMembership_can_view(self) == self.role \in {"owner", "editor", "viewer", "commenter"}

\* Variant of TeamMembership.can_comment with a plausible slip: the role list of
\* can_view was copied.
TeamMembership_can_comment_as_can_view(self) == self.role \in {"owner", "editor", "viewer", "commenter"}

\* TeamMembership.can_comment
TeamMembership_can_comment(self) == self.role \in {"owner", "editor", "commenter"}

\* Variant of the constraint below with a plausible slip: unique_together is missing.
TeamMembership_unconstrained(db, row) == FALSE

\* TeamMembership.objects.create under unique_together (team, user): the insert
\* raises IntegrityError when the pair is already present.
TeamMembership_violates(db, row) ==
    \E m \in db.memberships : m.team = row.team /\ m.user = row.user

----------------------------------------------------------------------------
(* projects/models.py *)

\* Project.can_edit
can_edit(db, slug, user) ==
    LET self == db.projects[slug]
        through == {m \in db.memberships : m.user = user /\ m.team \in self.team}
    IN  IF ~is_authenticated(user) THEN FALSE
        ELSE IF self.creator = user THEN TRUE
        ELSE IF self.team # None
                /\ through # {}
                /\ TeamMembership_can_edit(CHOOSE m \in through : TRUE) THEN TRUE
        ELSE FALSE

\* Variant of Project.can_view with a plausible slip: the creator branch is missing.
can_view_without_creator(db, slug, user) ==
    LET self == db.projects[slug]
    IN  IF self.is_public THEN TRUE
        ELSE IF ~is_authenticated(user) THEN FALSE
        ELSE IF self.team # None /\ is_member(db, Val(self.team), user) THEN TRUE
        ELSE FALSE

\* Project.can_view
can_view(db, slug, user) ==
    LET self == db.projects[slug]
    IN  IF self.is_public THEN TRUE
        ELSE IF ~is_authenticated(user) THEN FALSE
        ELSE IF self.creator = user THEN TRUE
        ELSE IF self.team # None /\ is_member(db, Val(self.team), user) THEN TRUE
        ELSE FALSE

\* Project.publish: status and published_at are assigned, then the row is saved.
publish(self, clock) ==
    [self EXCEPT !.status = "published", !.published_at = Some(clock)]

\* Project.increment_view_count
increment_view_count(self) ==
    [self EXCEPT !.view_count = self.view_count + 1]

\* Project.objects.create(..., status='draft') with the model's field defaults.
NewProject(user) ==
    [creator |-> user, team |-> None, status |-> "draft", is_public |-> FALSE,
     view_count |-> 0, like_count |-> 0, published_at |-> None]

\* Insert / update / delete of one Project row.
PutProject(db, slug, row) ==
    [db EXCEPT !.projects = [s \in (DOMAIN db.projects) \cup {slug} |->
                                IF s = slug THEN row ELSE db.projects[s]]]

\* Project.delete(): on_delete=CASCADE removes the project's associations, likes
\* and comments.
DeleteProject(db, slug) ==
    [db EXCEPT !.projects = [s \in (DOMAIN db.projects) \ {slug} |-> db.projects[s]],
               !.assocs = {a \in db.assocs : a.project # slug},
               !.likes = {l \in db.likes : l.project # slug},
               !.comments = {c \in db.comments : c.project # slug}]

Max(a, b) == IF a >= b THEN a ELSE b

----------------------------------------------------------------------------
(* projects/views.py *)

\* project_create
project_create(db, user, method, title) ==
    LET view == "project_create"
        slug == slugify(title)   \* Project.save: the slug is derived from the title
    IN  IF ~is_authenticated(user) THEN LoginRedirect(db, view)
        ELSE IF method # "POST" THEN Result(db, Response(view, "render", "none", ""))
        ELSE IF title = "" THEN
            Result(db, Response(view, "redirect", "error", "Project title is required."))
        ELSE IF slug \in DOMAIN db.projects THEN   \* slug is unique: IntegrityError
            Result(db, Response(view, "redirect", "error", "Error creating project"))
        ELSE Result(PutProject(db, slug, NewProject(user)),
                    Response(view, "redirect", "success", "Project created successfully."))

\* project_edit
project_edit(db, user, slug, method, is_public) ==
    LET view == "project_edit" IN
    IF ~is_authenticated(user) THEN LoginRedirect(db, view)
    ELSE IF slug \notin DOMAIN db.projects THEN NotFound(db, view)
    ELSE IF ~can_edit(db, slug, user) THEN
        Result(db, Response(view, "redirect", "error",
                            "You do not have permission to edit this project."))
    ELSE IF method = "POST" THEN
        Result(PutProject(db, slug, [db.projects[slug] EXCEPT !.is_public = is_public]),
               Response(view, "redirect", "success", "Project updated successfully."))
    ELSE Result(db, Response(view, "render", "none", ""))

\* project_detail
project_detail(db, user, slug) ==
    LET view == "project_detail" IN
    IF slug \notin DOMAIN db.projects THEN NotFound(db, view)
    ELSE IF ~can_view(db, slug, user) THEN NotFound(db, view)
    ELSE Result(PutProject(db, slug, increment_view_count(db.projects[slug])),
                Response(view, "render", "none", ""))

\* Variant of project_publish with a plausible slip: the can_edit check is missing.
project_publish_unguarded(db, clock, user, slug) ==
    LET view == "project_publish" IN
    IF ~is_authenticated(user) THEN LoginRedirect(db, view)
    ELSE IF slug \notin DOMAIN db.projects THEN NotFound(db, view)
    ELSE Result(PutProject(db, slug, publish(db.projects[slug], clock)),
                Response(view, "redirect", "success", "Project published successfully."))

\* project_publish
project_publish(db, clock, user, slug) ==
    LET view == "project_publish" IN
    IF ~is_authenticated(user) THEN LoginRedirect(db, view)
    ELSE IF slug \notin DOMAIN db.projects THEN NotFound(db, view)
    ELSE IF ~can_edit(db, slug, user) THEN
        Result(db, Response(view, "redirect", "error",
                            "You do not have permission to edit this project."))
    ELSE Result(PutProject(db, slug, publish(db.projects[slug], clock)),
                Response(view, "redirect", "success", "Project published successfully."))

\* project_delete
project_delete(db, user, slug, method) ==
    LET view == "project_delete" IN
    IF ~is_authenticated(user) THEN LoginRedirect(db, view)
    ELSE IF slug \notin DOMAIN db.projects THEN NotFound(db, view)
    ELSE IF ~can_edit(db, slug, user) THEN
        Result(db, Response(view, "redirect", "error",
                            "You do not have permission to delete this project."))
    ELSE IF method = "POST" THEN
        Result(DeleteProject(db, slug),
               Response(view, "redirect", "success", "Project deleted successfully."))
    ELSE Result(db, Response(view, "render", "none", ""))

\* Variant of project_like with a plausible slip: removing a like does not
\* decrement the counter.
project_like_without_decrement(db, user, slug) ==
    LET view == "project_like"
        project == db.projects[slug]
        like_obj == {l \in db.likes : l.project = slug /\ l.user = user}
    IN  IF ~is_authenticated(user) THEN LoginRedirect(db, view)
        ELSE IF slug \notin DOMAIN db.projects THEN NotFound(db, view)
        ELSE IF like_obj # {} THEN
            Result([db EXCEPT !.likes = db.likes \ like_obj],
                   Response(view, "redirect", "success", "Like removed."))
        ELSE
            Result(PutProject([db EXCEPT !.likes = db.likes \cup {[id |-> NextId(like_obj), project |-> slug, user |-> user]}],
                              slug, [project EXCEPT !.like_count = project.like_count + 1]),
                   Response(view, "redirect", "success", "Project liked!"))

\* project_like
project_like(db, user, slug) ==
    LET view == "project_like"
        project == db.projects[slug]
        like_obj == {l \in db.likes : l.project = slug /\ l.user = user}
    IN  IF ~is_authenticated(user) THEN LoginRedirect(db, view)
        ELSE IF slug \notin DOMAIN db.projects THEN NotFound(db, view)
        ELSE IF like_obj # {} THEN
            Result(PutProject([db EXCEPT !.likes = db.likes \ like_obj], slug,
                              [project EXCEPT !.like_count = Max(0, project.like_count - 1)]),
                   Response(view, "redirect", "success", "Like removed."))
        ELSE
            Result(PutProject([db EXCEPT !.likes = db.likes \cup {[id |-> NextId(like_obj), project |-> slug, user |-> user]}],
                              slug, [project EXCEPT !.like_count = project.like_count + 1]),
                   Response(view, "redirect", "success", "Project liked!"))

\* project_comment
project_comment(db, user, slug, method, content) ==
    LET view == "project_comment"
        text == strip(content)
        row == [id |-> NextId({c \in db.comments : c.project = slug /\ c.author = user /\ c.content = text}),
                project |-> slug, author |-> user, content |-> text]
    IN  IF ~is_authenticated(user) THEN LoginRedirect(db, view)
        ELSE IF method # "POST" THEN Result(db, Response(view, "redirect", "none", ""))
        ELSE IF slug \notin DOMAIN db.projects THEN NotFound(db, view)
        ELSE IF text = "" THEN
            Result(db, Response(view, "redirect", "error", "Comment cannot be empty."))
        ELSE Result([db EXCEPT !.comments = db.comments \cup {row}],
                    Response(view, "redirect", "success", "Comment posted successfully."))

\* A page that lists projects.
Listing(view, listed) ==
    [view |-> view, kind |-> "render", level |-> "none", text |-> "", projects |-> listed]

\* Variant of browse_projects with a plausible slip: the status is not filtered.
browse_projects_any_status(db, category, search, sort) ==
    LET view == "browse_projects"
        all == {s \in DOMAIN db.projects : db.projects[s].is_public}
        by_category == IF category # None THEN all \cap Val(category) ELSE all
        by_search == IF search # None THEN by_category \cap Val(search) ELSE by_category
    IN  IF sort \notin SortFields THEN Result(db, Response(view, "server_error", "none", "FieldError"))
        ELSE Result(db, Listing(view, by_search))

\* browse_projects.  order_by changes the order of the rows, not the rows, and
\* the store holds fewer projects than one page of the Paginator (12), so the
\* page is the whole list; an order_by on a name that is no field raises
\* FieldError when the page is evaluated.
browse_projects(db, category, search, sort) ==
    LET view == "browse_projects"
        all == {s \in DOMAIN db.projects :
                    db.projects[s].is_public /\ db.projects[s].status = "published"}
        by_category == IF category # None THEN all \cap Val(category) ELSE all
        by_search == IF search # None THEN by_category \cap Val(search) ELSE by_category
    IN  IF sort \notin SortFields THEN Result(db, Response(view, "server_error", "none", "FieldError"))
        ELSE Result(db, Listing(view, by_search))

\* ProjectAdmin change form (projects/admin.py): team and status are editable
\* fields; it is the only place of the code base that assigns Project.team or
\* the status 'archived'.
admin_project_change(db, slug, team, status) ==
    IF slug \notin DOMAIN db.projects \/ ~(team \subseteq DOMAIN db.teams) THEN
        Result(db, Response("admin_project_change", "render", "error", ""))
    ELSE Result(PutProject(db, slug, [db.projects[slug] EXCEPT !.team = team, !.status = status]),
                Response("admin_project_change", "redirect", "success", ""))

----------------------------------------------------------------------------
(* accounts/views.py *)

\* team_create.  fault names the statement of the try block that raises a
\* persistence error (caught by "except Exception"); the two inserts are not
\* inside transaction.atomic, so the first one stays when the second raises.
team_create(db, user, method, name, fault) ==
    LET view == "team_create"
        pk == Cardinality(DOMAIN db.teams) + 1
        with_team == [db EXCEPT !.teams = [t \in (DOMAIN db.teams) \cup {pk} |->
                                            IF t = pk THEN [name |-> name, owner |-> user]
                                            ELSE db.teams[t]]]
        owner_row == [id |-> NextId({m \in db.memberships : m.team = pk /\ m.user = user}),
                      team |-> pk, user |-> user, role |-> "owner"]
        failed(d) == Result(d, Response(view, "redirect", "error", "Error creating team"))
    IN  IF ~is_authenticated(user) THEN LoginRedirect(db, view)
        ELSE IF method # "POST" THEN Result(db, Response(view, "render", "none", ""))
        ELSE IF name = "" THEN
            Result(db, Response(view, "redirect", "error", "Team name is required."))
        ELSE IF fault = "team_insert" \/ (\E t \in DOMAIN db.teams : db.teams[t].name = name) THEN
            failed(db)                            \* Team.name is unique
        ELSE IF fault = "membership_insert" \/ TeamMembership_violates(with_team, owner_row) THEN
            failed(with_team)
        ELSE Result([with_team EXCEPT !.memberships = with_team.memberships \cup {owner_row}],
                    Response(view, "redirect", "success", "Team created successfully."))

\* Variant of team_add_member with a plausible slip: the check is on the role
\* of the actor's membership (owner or editor), not on team.owner.
team_add_member_by_role(db, user, pk, method, username, role) ==
    LET view == "team_add_member"
        row == [id |-> NextId({m \in db.memberships : m.team = pk /\ m.user = username}),
                team |-> pk, user |-> username, role |-> role]
    IN  IF ~is_authenticated(user) THEN LoginRedirect(db, view)
        ELSE IF pk \notin DOMAIN db.teams THEN NotFound(db, view)
        ELSE IF ~\E m \in db.memberships : m.team = pk /\ m.user = user /\ TeamMembership_can_edit(m) THEN
            Result(db, Response(view, "redirect", "error", "Only team owner can add members."))
        ELSE IF method # "POST" THEN Result(db, Response(view, "render", "none", ""))
        ELSE IF username \notin db.users THEN
            Result(db, Response(view, "render", "error", "Error adding member"))
        ELSE IF is_member(db, pk, username) THEN
            Result(db, Response(view, "redirect", "warning", "User is already a team member."))
        ELSE IF TeamMembership_violates(db, row) THEN
            Result(db, Response(view, "render", "error", "Error adding member"))
        ELSE Result([db EXCEPT !.memberships = db.memberships \cup {row}],
                    Response(view, "redirect", "success", "User added to team."))

\* team_add_member
team_add_member(db, user, pk, method, username, role) ==
    LET view == "team_add_member"
        row == [id |-> NextId({m \in db.memberships : m.team = pk /\ m.user = username}),
                team |-> pk, user |-> username, role |-> role]
    IN  IF ~is_authenticated(user) THEN LoginRedirect(db, view)
        ELSE IF pk \notin DOMAIN db.teams THEN NotFound(db, view)
        ELSE IF db.teams[pk].owner # user THEN
            Result(db, Response(view, "redirect", "error", "Only team owner can add members."))
        ELSE IF method # "POST" THEN Result(db, Response(view, "render", "none", ""))
        ELSE IF username \notin db.users THEN
            \* get_object_or_404 raises Http404, which "except Exception" catches
            Result(db, Response(view, "render", "error", "Error adding member"))
        ELSE IF is_member(db, pk, username) THEN
            Result(db, Response(view, "redirect", "warning", "User is already a team member."))
        ELSE IF TeamMembership_violates(db, row) THEN
            Result(db, Response(view, "render", "error", "Error adding member"))
        ELSE Result([db EXCEPT !.memberships = db.memberships \cup {row}],
                    Response(view, "redirect", "success", "User added to team."))

\* profile_view.  profile.total_views, which the view increments for a visitor,
\* is a column the store does not carry.
profile_view(db, user, username, portfolio) ==
    LET view == "profile_view" IN
    IF username \notin db.users THEN NotFound(db, view)
    ELSE IF portfolio = "missing" THEN
        Result(db, Response(view, "server_error", "none", "RelatedObjectDoesNotExist"))
    ELSE IF portfolio = "private" /\ user # username THEN
        Result(db, Response(view, "redirect", "error", "This portfolio is private."))
    ELSE Result(db, Listing(view, {s \in DOMAIN db.projects :
                                        /\ db.projects[s].creator = username
                                        /\ db.projects[s].is_public
                                        /\ db.projects[s].status = "published"}))

----------------------------------------------------------------------------
(* media/models.py, media/views.py *)

\* Variant of the constraint below with a plausible slip: unique_together is missing.
ProjectMediaAssociation_unconstrained(db, row) == FALSE

\* ProjectMediaAssociation.objects.create under unique_together (project, media):
\* the insert raises IntegrityError when the pair is already present.
ProjectMediaAssociation_violates(db, row) ==
    \E a \in db.assocs : a.project = row.project /\ a.media = row.media

\* Variant of DeleteMedia with a plausible slip: the associations are left behind
\* (on_delete=DO_NOTHING).
DeleteMedia_without_cascade(db, pk) ==
    [db EXCEPT !.media = [m \in (DOMAIN db.media) \ {pk} |-> db.media[m]]]

\* MediaAsset.delete(): on_delete=CASCADE removes the asset's associations.
DeleteMedia(db, pk) ==
    [db EXCEPT !.media = [m \in (DOMAIN db.media) \ {pk} |-> db.media[m]],
               !.assocs = {a \in db.assocs : a.media # pk}]

\* media_upload
media_upload(db, user, method, file, is_public) ==
    LET view == "media_upload"
        pk == db.media_seq + 1
        bad(text) == Result(db, Response(view, "json_400", "error", text))
    IN  IF ~is_authenticated(user) THEN LoginRedirect(db, view)
        ELSE IF method # "POST" THEN Result(db, Response(view, "method_not_allowed", "none", ""))
        ELSE IF file = NoFile THEN bad("No file provided")
        ELSE IF file.size > MAX_UPLOAD_SIZE THEN bad("File size exceeds limit")
        ELSE IF file.ext \notin ALLOWED_FILE_TYPES THEN bad("File type is not allowed")
        ELSE Result([db EXCEPT !.media = [m \in (DOMAIN db.media) \cup {pk} |->
                                            IF m = pk THEN [owner |-> user, is_public |-> is_public]
                                            ELSE db.media[m]],
                                !.media_seq = pk],
                    Response(view, "json_200", "success", ""))

\* Variant of media_detail with a plausible slip: the access check is missing.
media_detail_without_check(db, user, pk) ==
    LET view == "media_detail" IN
    IF ~is_authenticated(user) THEN LoginRedirect(db, view)
    ELSE IF pk \notin DOMAIN db.media THEN NotFound(db, view)
    ELSE Result(db, Response(view, "render", "none", ""))

\* media_detail
media_detail(db, user, pk) ==
    LET view == "media_detail" IN
    IF ~is_authenticated(user) THEN LoginRedirect(db, view)
    ELSE IF pk \notin DOMAIN db.media THEN NotFound(db, view)
    ELSE IF ~db.media[pk].is_public /\ db.media[pk].owner # user THEN NotFound(db, view)
    ELSE Result(db, Response(view, "render", "none", ""))

\* Variant of media_edit with a plausible slip: the owner check comes after the
\* POST branch.
media_edit_unchecked_post(db, user, pk, method, is_public) ==
    LET view == "media_edit" IN
    IF ~is_authenticated(user) THEN LoginRedirect(db, view)
    ELSE IF pk \notin DOMAIN db.media THEN NotFound(db, view)
    ELSE IF method = "POST" THEN
        Result([db EXCEPT !.media[pk].is_public = is_public],
               Response(view, "redirect", "success", "Media updated successfully."))
    ELSE IF db.media[pk].owner # user THEN
        Result(db, Response(view, "redirect", "error",
                            "You do not have permission to edit this media."))
    ELSE Result(db, Response(view, "render", "none", ""))

\* media_edit
media_edit(db, user, pk, method, is_public) ==
    LET view == "media_edit" IN
    IF ~is_authenticated(user) THEN LoginRedirect(db, view)
    ELSE IF pk \notin DOMAIN db.media THEN NotFound(db, view)
    ELSE IF db.media[pk].owner # user THEN
        Result(db, Response(view, "redirect", "error",
                            "You do not have permission to edit this media."))
    ELSE IF method = "POST" THEN
        Result([db EXCEPT !.media[pk].is_public = is_public],
               Response(view, "redirect", "success", "Media updated successfully."))
    ELSE Result(db, Response(view, "render", "none", ""))

\* media_delete
media_delete(db, user, pk, method) ==
    LET view == "media_delete" IN
    IF ~is_authenticated(user) THEN LoginRedirect(db, view)
    ELSE IF pk \notin DOMAIN db.media THEN NotFound(db, view)
    ELSE IF db.media[pk].owner # user THEN
        Result(db, Response(view, "redirect", "error",
                            "You do not have permission to delete this media."))
    ELSE IF method = "POST" THEN
        Result(DeleteMedia(db, pk),
               Response(view, "redirect", "success", "Media deleted successfully."))
    ELSE Result(db, Response(view, "render", "none", ""))

\* Variant of next_order with a plausible slip: the count is over all projects.
next_order_all_projects(db, slug) == Cardinality(db.assocs)

\* "Get next order": project.media_files.count()
next_order(db, slug) == Cardinality({a \in db.assocs : a.project = slug})

\* Variant of add_media_to_project with a plausible slip: the asset is looked up
\* by id alone, not by id and owner.
add_media_to_project_any_owner(db, user, slug, method, media_id, form) ==
    LET view == "add_media_to_project"
        row == [id |-> NextId({a \in db.assocs : a.project = slug /\ a.media = media_id}),
                project |-> slug, media |-> media_id, caption |-> form.caption,
                is_cover |-> form.is_cover, order |-> Cardinality({a \in db.assocs : a.project = slug})]
    IN  IF ~is_authenticated(user) THEN LoginRedirect(db, view)
        ELSE IF slug \notin DOMAIN db.projects THEN NotFound(db, view)
        ELSE IF ~can_edit(db, slug, user) THEN
            Result(db, Response(view, "redirect", "error",
                                "You do not have permission to edit this project."))
        ELSE IF method # "POST" THEN Result(db, Response(view, "render", "none", ""))
        ELSE IF media_id \notin DOMAIN db.media THEN
            Result(db, Response(view, "render", "error", "Media not found."))
        ELSE IF \E a \in db.assocs : a.project = slug /\ a.media = media_id THEN
            Result(db, Response(view, "render", "error", "Error adding media: IntegrityError"))
        ELSE Result([db EXCEPT !.assocs = db.assocs \cup {row}],
                    Response(view, "redirect", "success", "Media added to project."))

\* add_media_to_project
add_media_to_project(db, user, slug, method, media_id, form) ==
    LET view == "add_media_to_project"
        row == [id |-> NextId({a \in db.assocs : a.project = slug /\ a.media = media_id}),
                project |-> slug, media |-> media_id, caption |-> form.caption,
                is_cover |-> form.is_cover, order |-> next_order(db, slug)]
    IN  IF ~is_authenticated(user) THEN LoginRedirect(db, view)
        ELSE IF slug \notin DOMAIN db.projects THEN NotFound(db, view)
        ELSE IF ~can_edit(db, slug, user) THEN
            Result(db, Response(view, "redirect", "error",
                                "You do not have permission to edit this project."))
        ELSE IF method # "POST" THEN Result(db, Response(view, "render", "none", ""))
        ELSE IF ~(media_id \in DOMAIN db.media /\ db.media[media_id].owner = user) THEN
            Result(db, Response(view, "render", "error", "Media not found."))
        ELSE IF ProjectMediaAssociation_violates(db, row) THEN
            Result(db, Response(view, "render", "error", "Error adding media: IntegrityError"))
        ELSE Result([db EXCEPT !.assocs = db.assocs \cup {row}],
                    Response(view, "redirect", "success", "Media added to project."))

\* remove_media_from_project.  The association's pk is modelled by the
\* (project, media) pair it is unique on.
remove_media_from_project(db, user, slug, media_id) ==
    LET view == "remove_media_from_project"
        association == {a \in db.assocs : a.project = slug /\ a.media = media_id}
    IN  IF ~is_authenticated(user) THEN LoginRedirect(db, view)
        ELSE IF association = {} THEN NotFound(db, view)
        ELSE IF ~can_edit(db, slug, user) THEN
            Result(db, Response(view, "redirect", "error",
                                "You do not have permission to edit this project."))
        ELSE Result([db EXCEPT !.assocs = db.assocs \ association],
                    Response(view, "redirect", "success", "Media removed from project."))

----------------------------------------------------------------------------
(* The sequential system: one request at a time *)

\* An empty store but for the registered users.
Empty(registered) ==
    [users |-> registered,
     auth_user |-> {[id |-> 1, username |-> u, email |-> EmailOf[u]] : u \in registered},
     projects |-> << >>, teams |-> << >>, memberships |-> {}, media |-> << >>, media_seq |-> 0,
     assocs |-> {}, likes |-> {}, comments |-> {}]

\* The server starts on store db, with no request in hand.
StartOn(db) ==
    /\ users = db.users
    /\ auth_user = db.auth_user
    /\ projects = db.projects
    /\ teams = db.teams
    /\ memberships = db.memberships
    /\ media = db.media
    /\ media_seq = db.media_seq
    /\ assocs = db.assocs
    /\ likes = db.likes
    /\ comments = db.comments
    /\ inflight = [r \in Requests |-> Idle]
    /\ now = 0
    /\ resp = Response("none", "none", "none", "")

InitWith(registered) == StartOn(Empty(registered))

Init == InitWith(Users)

Apply(r) ==
    /\ users' = r.db.users
    /\ auth_user' = r.db.auth_user
    /\ comments' = r.db.comments
    /\ UNCHANGED inflight
    /\ projects' = r.db.projects
    /\ teams' = r.db.teams
    /\ memberships' = r.db.memberships
    /\ media' = r.db.media
    /\ media_seq' = r.db.media_seq
    /\ assocs' = r.db.assocs
    /\ likes' = r.db.likes
    /\ resp' = r.resp
    /\ UNCHANGED now

ProjectCreateFrom(titles) == \E u \in Actors, me \in Methods, t \in titles :
    Apply(project_create(DB, u, me, t))

ProjectCreate == ProjectCreateFrom(Titles)

ProjectEdit == \E u \in Actors, s \in Slugs, me \in Methods, pub \in BOOLEAN :
    Apply(project_edit(DB, u, s, me, pub))

ProjectDetail == \E u \in Actors, s \in Slugs :
    /\ s \in DOMAIN projects => projects[s].view_count < MaxViews
    /\ Apply(project_detail(DB, u, s))

BrowseProjects == \E c \in Matches, q \in Matches, o \in SortInputs :
    Apply(browse_projects(DB, c, q, o))

ProfileView == \E u \in Actors, n \in Usernames, p \in Portfolios :
    Apply(profile_view(DB, u, n, p))

ProjectPublish == \E u \in Actors, s \in Slugs :
    Apply(project_publish(DB, now, u, s))

ProjectDelete == \E u \in Actors, s \in Slugs, me \in Methods :
    Apply(project_delete(DB, u, s, me))

ProjectLike == \E u \in Actors, s \in Slugs :
    Apply(project_like(DB, u, s))

\* project_like requests of some actors, while the counter is within its bound.
ProjectLikeFrom(actors) == \E u \in actors, s \in Slugs :
    /\ s \in DOMAIN projects => projects[s].like_count < MaxLikes
    /\ Apply(project_like(DB, u, s))

ProjectComment == \E u \in Actors, s \in Slugs, me \in Methods, c \in Contents :
    /\ Cardinality(comments) < MaxComments
    /\ Apply(project_comment(DB, u, s, me, c))

\* The choices of the admin form's team field.
TeamChoices == {None} \cup {Some(k) : k \in TeamIds}

AdminProjectChange == \E s \in Slugs, t \in TeamChoices, st \in STATUS_CHOICES :
    Apply(admin_project_change(DB, s, t, st))

TeamCreateWith(faults) == \E u \in Actors, me \in Methods, n \in TeamNames, f \in faults :
    Apply(team_create(DB, u, me, n, f))

TeamCreate == TeamCreateWith(Faults)

TeamAddMemberFrom(roles) == \E u \in Actors, pk \in TeamIds, me \in Methods, n \in Usernames, r \in roles :
    Apply(team_add_member(DB, u, pk, me, n, r))

TeamAddMember == TeamAddMemberFrom(RoleInputs)

MediaUploadFrom(flags) == \E u \in Actors, me \in Methods, f \in Files, pub \in flags :
    /\ media_seq < MaxMedia
    /\ Apply(media_upload(DB, u, me, f, pub))

MediaUpload == MediaUploadFrom(BOOLEAN)

MediaDetail == \E u \in Actors, pk \in MediaIds :
    Apply(media_detail(DB, u, pk))

MediaEdit == \E u \in Actors, pk \in MediaIds, me \in Methods, pub \in BOOLEAN :
    Apply(media_edit(DB, u, pk, me, pub))

MediaDelete == \E u \in Actors, pk \in MediaIds, me \in Methods :
    Apply(media_delete(DB, u, pk, me))

AddMediaToProjectFrom(forms) == \E u \in Actors, s \in Slugs, me \in Methods, m \in MediaIds, f \in forms :
    Apply(add_media_to_project(DB, u, s, me, m, f))

AddMediaToProject == AddMediaToProjectFrom(AssocInputs)

RemoveMediaFromProject == \E u \in Actors, s \in Slugs, m \in MediaIds :
    Apply(remove_media_from_project(DB, u, s, m))

\* Time passes between requests.
Tick ==
    /\ now < MaxTime
    /\ now' = now + 1
    /\ UNCHANGED <<users, auth_user, projects, teams, memberships, media, media_seq, assocs, likes,
                   comments, inflight, resp>>

\* The whole system.
Next ==
    \/ ProjectCreate
    \/ ProjectEdit
    \/ ProjectDetail
    \/ ProjectPublish
    \/ ProjectDelete
    \/ ProjectLike
    \/ ProjectComment
    \/ AdminProjectChange
    \/ TeamCreate
    \/ TeamAddMember
    \/ MediaUpload
    \/ MediaEdit
    \/ MediaDelete
    \/ AddMediaToProject
    \/ RemoveMediaFromProject
    \/ Tick

Spec == Init /\ [][Next]_vars

(***************************************************************************)
(* The reachable states of Spec are the product of the states of its       *)
(* tables, which is beyond exhaustive search even for two users and two    *)
(* projects.  The properties below are therefore checked under the         *)
(* specifications that follow: each one is the system restricted to the    *)
(* requests that write the tables its properties read, from a store with   *)
(* the registered users named.                                             *)
(***************************************************************************)

TwoUsers == {"alice", "bob"}
OneTitle == {"", "Logo"}
PlainForm == {[caption |-> "", is_cover |-> FALSE]}

\* Teams and memberships: accounts/views.py
NextTeam ==
    \/ TeamCreate
    \/ TeamAddMember

SpecTeam == InitWith(Users) /\ [][NextTeam]_vars

\* Who may view and edit a project: the creator, the visibility flag, the team
\* (attached through the admin) and its memberships.
NextAccess ==
    \/ TeamCreate
    \/ TeamAddMemberFrom(ROLE_CHOICES)
    \/ ProjectCreateFrom(OneTitle)
    \/ ProjectEdit
    \/ ProjectDetail
    \/ ProjectDelete
    \/ AdminProjectChange

SpecAccess == InitWith(TwoUsers) /\ [][NextAccess]_vars

\* The project lifecycle: status and published_at.
NextPublish ==
    \/ ProjectCreate
    \/ ProjectEdit
    \/ ProjectPublish
    \/ ProjectDelete
    \/ AdminProjectChange
    \/ Tick

SpecPublish == InitWith(TwoUsers) /\ [][NextPublish]_vars

\* Likes and the like counter.
NextLike ==
    \/ ProjectCreate
    \/ ProjectLike
    \/ ProjectDelete

SpecLike == InitWith(Users) /\ [][NextLike]_vars

\* The listings of projects, next to the requests that change a project's
\* visibility and status.
NextBrowse ==
    \/ ProjectCreate
    \/ ProjectEdit
    \/ ProjectPublish
    \/ AdminProjectChange
    \/ BrowseProjects
    \/ ProfileView

SpecBrowse == InitWith(TwoUsers) /\ [][NextBrowse]_vars

\* Assets of two users: upload, detail, edit and delete.
NextAsset ==
    \/ MediaUpload
    \/ MediaDetail
    \/ MediaEdit
    \/ MediaDelete

SpecAsset == InitWith(TwoUsers) /\ [][NextAsset]_vars

\* Teams and the roles of their members when no insert of team_create fails.
NextRoles ==
    \/ TeamCreateWith({"none"})
    \/ TeamAddMember

SpecRoles == InitWith(Users) /\ [][NextRoles]_vars

\* The like counter of one project under every sequential request that writes
\* the project row.
NextCount ==
    \/ ProjectCreateFrom(OneTitle)
    \/ ProjectLike
    \/ ProjectEdit
    \/ ProjectPublish
    \/ ProjectDetail
    \/ Tick

SpecCount == InitWith(Users) /\ [][NextCount]_vars

\* Associations of media with two projects (one caption / cover form).
NextMedia ==
    \/ ProjectCreate
    \/ MediaUploadFrom({FALSE})
    \/ AddMediaToProjectFrom(PlainForm)
    \/ RemoveMediaFromProject

SpecMedia == InitWith(TwoUsers) /\ [][NextMedia]_vars

\* Associations of media with one project, under every caption / cover form.
NextAttach ==
    \/ ProjectCreateFrom(OneTitle)
    \/ MediaUpload
    \/ AddMediaToProject
    \/ RemoveMediaFromProject

SpecAttach == InitWith(TwoUsers) /\ [][NextAttach]_vars

\* Publishing the project of a team: the creator, the team's editors and viewers.
NextTeamPublish ==
    \/ TeamCreate
    \/ TeamAddMemberFrom({"editor", "viewer"})
    \/ ProjectCreateFrom(OneTitle)
    \/ ProjectPublish
    \/ AdminProjectChange
    \/ Tick

SpecTeamPublish == InitWith(TwoUsers) /\ [][NextTeamPublish]_vars

----------------------------------------------------------------------------
(* Concurrent requests.                                                    *)
(*                                                                         *)
(* The database runs in autocommit mode (no ATOMIC_REQUESTS, and no        *)
(* transaction.atomic in these views), so every ORM call of a view is one  *)
(* atomic step and the steps of the requests in hand interleave.  A view   *)
(* is cut at the ORM calls that touch a table another request of the       *)
(* specification writes; the decorators and the reads that come before the *)
(* first such call are taken with the first step.  A step returns the      *)
(* store, the request's next position and locals, and the response if the  *)
(* request ends there.                                                     *)

Out(db, req, r) == [db |-> db, req |-> req, resp |-> r]

\* The response of a step that does not end the request.
Pending == Response("none", "pending", "none", "")

\* An exception no except clause of the view catches: Django answers 500.
ServerError(db, view, text) == Out(db, Idle, Response(view, "server_error", "none", text))

\* ProjectLike.objects.create under unique_together (project, user).
ProjectLike_violates(db, row) ==
    \E l \in db.likes : l.project = row.project /\ l.user = row.user

\* project_like, up to project = get_object_or_404(Project, slug=slug): the
\* request keeps the row it read, like_count included.
project_like_get(db, user, slug) ==
    LET view == "project_like" IN
    IF ~is_authenticated(user) THEN Out(db, Idle, LoginRedirect(db, view).resp)
    ELSE IF slug \notin DOMAIN db.projects THEN Out(db, Idle, NotFound(db, view).resp)
    ELSE Out(db, [view |-> view, pc |-> "filter", user |-> user, slug |-> slug,
                  project |-> db.projects[slug], like_obj |-> {}], Pending)

\* like_obj = project.likes.filter(user=request.user).first()
project_like_filter(db, req) ==
    LET found == {l \in db.likes : l.project = req.slug /\ l.user = req.user}
        first == {l \in found : \A o \in found : l.id <= o.id}
    IN  Out(db, [req EXCEPT !.like_obj = first,
                            !.pc = IF first # {} THEN "delete" ELSE "create"], Pending)

\* Variant of the step below with a plausible slip: the counter is not decremented.
project_like_delete_without_decrement(db, req) ==
    Out([db EXCEPT !.likes = db.likes \ req.like_obj], [req EXCEPT !.pc = "save"], Pending)

\* like_obj.delete(); project.like_count = max(0, project.like_count - 1)
project_like_delete(db, req) ==
    Out([db EXCEPT !.likes = db.likes \ req.like_obj],
        [req EXCEPT !.project.like_count = Max(0, req.project.like_count - 1), !.pc = "save"],
        Pending)

\* ProjectLike.objects.create(project=project, user=request.user);
\* project.like_count += 1.  held are the Like rows other requests hold in a
\* local: their primary keys are not handed out again.
project_like_create(db, req, held) ==
    LET same == {l \in db.likes \cup held : l.project = req.slug /\ l.user = req.user}
        row == [id |-> NextId(same), project |-> req.slug, user |-> req.user]
    IN  IF ProjectLike_violates(db, row) THEN ServerError(db, req.view, "IntegrityError")
        ELSE Out([db EXCEPT !.likes = db.likes \cup {row}],
                 [req EXCEPT !.project.like_count = req.project.like_count + 1, !.pc = "save"],
                 Pending)

\* project.save(update_fields=['like_count']): the like_count the request
\* computed from the row it read is written over the stored one.
project_like_save(db, req) ==
    IF req.slug \notin DOMAIN db.projects THEN ServerError(db, req.view, "DatabaseError")
    ELSE Out(PutProject(db, req.slug,
                        [db.projects[req.slug] EXCEPT !.like_count = req.project.like_count]),
             Idle,
             Response(req.view, "redirect", "success",
                      IF req.like_obj # {} THEN "Like removed." ELSE "Project liked!"))

\* User.objects.create_user: auth.User.username is unique in the database
\* (auth.User.email is not).
User_violates(db, row) == \E x \in db.auth_user : x.username = row.username

\* register, up to the validation of the form fields.
register_validate(db, user, method, username, email, pw) ==
    LET view == "register" IN
    IF is_authenticated(user) THEN Out(db, Idle, Response(view, "redirect", "none", ""))
    ELSE IF method # "POST" THEN Out(db, Idle, Response(view, "render", "none", ""))
    ELSE IF username = "" \/ email = "" \/ pw.password = "" \/ pw.password_confirm = "" THEN
        Out(db, Idle, Response(view, "redirect", "error", "All fields are required."))
    ELSE IF pw.password # pw.password_confirm THEN
        Out(db, Idle, Response(view, "redirect", "error", "Passwords do not match."))
    ELSE Out(db, [view |-> view, pc |-> "username_exists", username |-> username, email |-> email],
             Pending)

\* if User.objects.filter(username=username).exists()
register_username_exists(db, req) ==
    IF \E x \in db.auth_user : x.username = req.username THEN
        Out(db, Idle, Response(req.view, "redirect", "error", "Username already exists."))
    ELSE Out(db, [req EXCEPT !.pc = "email_exists"], Pending)

\* if User.objects.filter(email=email).exists()
register_email_exists(db, req) ==
    IF \E x \in db.auth_user : x.email = req.email THEN
        Out(db, Idle, Response(req.view, "redirect", "error", "Email already exists."))
    ELSE Out(db, [req EXCEPT !.pc = "create"], Pending)

\* with transaction.atomic(): User.objects.create_user(...), under "except Exception"
register_create(db, req) ==
    LET row == [id |-> NextId({x \in db.auth_user : x.username = req.username /\ x.email = req.email}),
                username |-> req.username, email |-> req.email]
    IN  IF User_violates(db, row) THEN
            Out(db, Idle, Response(req.view, "redirect", "error", "Registration failed"))
        ELSE Out([db EXCEPT !.auth_user = db.auth_user \cup {row},
                            !.users = db.users \cup {req.username}], Idle,
                 Response(req.view, "redirect", "success", "Registration successful! Please login."))

\* team_add_member, up to user = get_object_or_404(User, username=username).
team_add_member_get(db, user, pk, method, username, role) ==
    LET view == "team_add_member" IN
    IF ~is_authenticated(user) THEN Out(db, Idle, LoginRedirect(db, view).resp)
    ELSE IF pk \notin DOMAIN db.teams THEN Out(db, Idle, NotFound(db, view).resp)
    ELSE IF db.teams[pk].owner # user THEN
        Out(db, Idle, Response(view, "redirect", "error", "Only team owner can add members."))
    ELSE IF method # "POST" THEN Out(db, Idle, Response(view, "render", "none", ""))
    ELSE IF username \notin db.users THEN
        Out(db, Idle, Response(view, "render", "error", "Error adding member"))
    ELSE Out(db, [view |-> view, pc |-> "is_member", user |-> user, team |-> pk,
                  username |-> username, role |-> role], Pending)

\* if team.is_member(user): warning and redirect
team_add_member_check(db, req) ==
    IF is_member(db, req.team, req.username) THEN
        Out(db, Idle, Response(req.view, "redirect", "warning", "User is already a team member."))
    ELSE Out(db, [req EXCEPT !.pc = "create"], Pending)

\* TeamMembership.objects.create(team=team, user=user, role=role)
team_add_member_create(db, req) ==
    LET row == [id |-> NextId({m \in db.memberships : m.team = req.team /\ m.user = req.username}),
                team |-> req.team, user |-> req.username, role |-> req.role]
    IN  IF TeamMembership_violates(db, row) THEN
            Out(db, Idle, Response(req.view, "render", "error", "Error adding member"))
        ELSE Out([db EXCEPT !.memberships = db.memberships \cup {row}], Idle,
                 Response(req.view, "redirect", "success", "User added to team."))

\* add_media_to_project, up to media = MediaAsset.objects.get(id=media_id, owner=request.user).
add_media_to_project_get(db, user, slug, method, media_id, form) ==
    LET view == "add_media_to_project" IN
    IF ~is_authenticated(user) THEN Out(db, Idle, LoginRedirect(db, view).resp)
    ELSE IF slug \notin DOMAIN db.projects THEN Out(db, Idle, NotFound(db, view).resp)
    ELSE IF ~can_edit(db, slug, user) THEN
        Out(db, Idle, Response(view, "redirect", "error",
                               "You do not have permission to edit this project."))
    ELSE IF method # "POST" THEN Out(db, Idle, Response(view, "render", "none", ""))
    ELSE IF ~(media_id \in DOMAIN db.media /\ db.media[media_id].owner = user) THEN
        Out(db, Idle, Response(view, "render", "error", "Media not found."))
    ELSE Out(db, [view |-> view, pc |-> "count", user |-> user, slug |-> slug,
                  media |-> media_id, form |-> form, next_order |-> 0], Pending)

\* next_order = project.media_files.count()
add_media_to_project_count(db, req) ==
    Out(db, [req EXCEPT !.next_order = next_order(db, req.slug), !.pc = "create"], Pending)

\* ProjectMediaAssociation.objects.create(..., order=next_order)
add_media_to_project_create(db, req) ==
    LET row == [id |-> NextId({a \in db.assocs : a.project = req.slug /\ a.media = req.media}),
                project |-> req.slug, media |-> req.media, caption |-> req.form.caption,
                is_cover |-> req.form.is_cover, order |-> req.next_order]
    IN  IF ProjectMediaAssociation_violates(db, row) THEN
            Out(db, Idle, Response(req.view, "render", "error", "Error adding media: IntegrityError"))
        ELSE Out([db EXCEPT !.assocs = db.assocs \cup {row}], Idle,
                 Response(req.view, "redirect", "success", "Media added to project."))

\* project_publish, up to project.can_edit(request.user): the request keeps the
\* whole row it read.
project_publish_get(db, user, slug) ==
    LET view == "project_publish" IN
    IF ~is_authenticated(user) THEN Out(db, Idle, LoginRedirect(db, view).resp)
    ELSE IF slug \notin DOMAIN db.projects THEN Out(db, Idle, NotFound(db, view).resp)
    ELSE IF ~can_edit(db, slug, user) THEN
        Out(db, Idle, Response(view, "redirect", "error",
                               "You do not have permission to edit this project."))
    ELSE Out(db, [view |-> view, pc |-> "save", user |-> user, slug |-> slug,
                  project |-> db.projects[slug], like_obj |-> {}], Pending)

\* project.publish(): self.save() has no update_fields, so every column of the
\* row the request read, the counters included, is written over the stored row.
project_publish_save(db, clock, req) ==
    Out(PutProject(db, req.slug, publish(req.project, clock)), Idle,
        Response(req.view, "redirect", "success", "Project published successfully."))

\* project_edit, up to the assignments from request.POST: the request keeps the
\* whole row it read, with the posted fields assigned.
project_edit_get(db, user, slug, method, is_public) ==
    LET view == "project_edit" IN
    IF ~is_authenticated(user) THEN Out(db, Idle, LoginRedirect(db, view).resp)
    ELSE IF slug \notin DOMAIN db.projects THEN Out(db, Idle, NotFound(db, view).resp)
    ELSE IF ~can_edit(db, slug, user) THEN
        Out(db, Idle, Response(view, "redirect", "error",
                               "You do not have permission to edit this project."))
    ELSE IF method = "POST" THEN
        Out(db, [view |-> view, pc |-> "save", user |-> user, slug |-> slug,
                 project |-> [db.projects[slug] EXCEPT !.is_public = is_public],
                 like_obj |-> {}], Pending)
    ELSE Out(db, Idle, Response(view, "render", "none", ""))

\* project.save() in project_edit: no update_fields, every column is written.
project_edit_save(db, req) ==
    Out(PutProject(db, req.slug, req.project), Idle,
        Response(req.view, "redirect", "success", "Project updated successfully."))

\* Worker r takes the step: the store and its request move on, and the response
\* is sent if the request ends.
Handle(r, out) ==
    /\ users' = out.db.users
    /\ auth_user' = out.db.auth_user
    /\ projects' = out.db.projects
    /\ teams' = out.db.teams
    /\ memberships' = out.db.memberships
    /\ media' = out.db.media
    /\ media_seq' = out.db.media_seq
    /\ assocs' = out.db.assocs
    /\ likes' = out.db.likes
    /\ comments' = out.db.comments
    /\ inflight' = [inflight EXCEPT ![r] = out.req]
    /\ resp' = IF out.resp = Pending THEN resp ELSE out.resp
    /\ UNCHANGED now

\* Worker r is at position pc of view.
At(r, view, pc) == inflight[r].view = view /\ inflight[r].pc = pc

\* No request is in hand.
Quiescent == \A r \in Requests : inflight[r] = Idle

\* The Like rows that requests other than r hold in a local.
HeldLikes(r) ==
    UNION {inflight[o].like_obj : o \in {x \in Requests \ {r} : inflight[x].view = "project_like"}}

LikeGet(actors) == \E r \in Requests, u \in actors, s \in Slugs :
    /\ inflight[r] = Idle
    /\ s \in DOMAIN projects => projects[s].like_count < MaxLikes
    /\ Handle(r, project_like_get(DB, u, s))

LikeFilter == \E r \in Requests :
    /\ At(r, "project_like", "filter")
    /\ Handle(r, project_like_filter(DB, inflight[r]))

LikeDelete == \E r \in Requests :
    /\ At(r, "project_like", "delete")
    /\ Handle(r, project_like_delete(DB, inflight[r]))

LikeCreate == \E r \in Requests :
    /\ At(r, "project_like", "create")
    /\ Handle(r, project_like_create(DB, inflight[r], HeldLikes(r)))

LikeSave == \E r \in Requests :
    /\ At(r, "project_like", "save")
    /\ Handle(r, project_like_save(DB, inflight[r]))

MemberGet(roles) == \E r \in Requests, u \in Actors, pk \in TeamIds, me \in Methods, n \in Usernames, ro \in roles :
    /\ inflight[r] = Idle
    /\ Handle(r, team_add_member_get(DB, u, pk, me, n, ro))

MemberCheck == \E r \in Requests :
    /\ At(r, "team_add_member", "is_member")
    /\ Handle(r, team_add_member_check(DB, inflight[r]))

MemberCreate == \E r \in Requests :
    /\ At(r, "team_add_member", "create")
    /\ Handle(r, team_add_member_create(DB, inflight[r]))

AttachGet(forms) == \E r \in Requests, u \in Actors, s \in Slugs, me \in Methods, m \in MediaIds, f \in forms :
    /\ inflight[r] = Idle
    /\ Handle(r, add_media_to_project_get(DB, u, s, me, m, f))

AttachCount == \E r \in Requests :
    /\ At(r, "add_media_to_project", "count")
    /\ Handle(r, add_media_to_project_count(DB, inflight[r]))

AttachCreate == \E r \in Requests :
    /\ At(r, "add_media_to_project", "create")
    /\ Handle(r, add_media_to_project_create(DB, inflight[r]))

RegisterValidate == \E r \in Requests, u \in Actors, me \in Methods, n \in NewUsernames, e \in NewEmails, pw \in Passwords :
    /\ inflight[r] = Idle
    /\ Handle(r, register_validate(DB, u, me, n, e, pw))

RegisterUsernameExists == \E r \in Requests :
    /\ At(r, "register", "username_exists")
    /\ Handle(r, register_username_exists(DB, inflight[r]))

RegisterEmailExists == \E r \in Requests :
    /\ At(r, "register", "email_exists")
    /\ Handle(r, register_email_exists(DB, inflight[r]))

RegisterCreate == \E r \in Requests :
    /\ At(r, "register", "create")
    /\ Handle(r, register_create(DB, inflight[r]))

PublishGet(workers) == \E r \in workers, u \in Actors, s \in Slugs :
    /\ inflight[r] = Idle
    /\ Handle(r, project_publish_get(DB, u, s))

PublishSave == \E r \in Requests :
    /\ At(r, "project_publish", "save")
    /\ Handle(r, project_publish_save(DB, now, inflight[r]))

EditGet(workers) == \E r \in workers, u \in Actors, s \in Slugs, me \in Methods, pub \in BOOLEAN :
    /\ inflight[r] = Idle
    /\ Handle(r, project_edit_get(DB, u, s, me, pub))

EditSave == \E r \in Requests :
    /\ At(r, "project_edit", "save")
    /\ Handle(r, project_edit_save(DB, inflight[r]))

\* One user's like requests on a project, two at a time.
NextLikeRace ==
    \/ ProjectCreateFrom(OneTitle)
    \/ LikeGet({"alice"})
    \/ LikeFilter
    \/ LikeDelete
    \/ LikeCreate
    \/ LikeSave

SpecLikeRace == InitWith(TwoUsers) /\ [][NextLikeRace]_vars

\* Registrations, two at a time, next to one registered user.
NextRegister ==
    \/ RegisterValidate
    \/ RegisterUsernameExists
    \/ RegisterEmailExists
    \/ RegisterCreate

SpecRegister == InitWith({"alice"}) /\ [][NextRegister]_vars

\* A store the sequential requests reach: alice has created project "logo" and
\* team 1 and has uploaded asset 1.
Populated ==
    LET created == project_create(Empty(TwoUsers), "alice", "POST", "Logo").db
        teamed == team_create(created, "alice", "POST", "Design", "none").db
    IN  media_upload(teamed, "alice", "POST", [ext |-> "png", size |-> 1024], FALSE).db

\* Deleting projects and assets that associations, likes and comments refer to.
NextCascade ==
    \/ ProjectCreateFrom(OneTitle)
    \/ ProjectLike
    \/ ProjectComment
    \/ ProjectDelete
    \/ MediaUploadFrom({FALSE})
    \/ MediaDelete
    \/ AddMediaToProjectFrom(PlainForm)

SpecCascade == InitWith(TwoUsers) /\ [][NextCascade]_vars

\* Requests that race for the three tables with a unique_together constraint:
\* alice's likes of her project, her additions of members to her team and of
\* her asset to her project, and everybody's add-member and add-media requests
\* that are refused.
NextRace ==
    \/ LikeGet({"alice"})
    \/ LikeFilter
    \/ LikeDelete
    \/ LikeCreate
    \/ LikeSave
    \/ MemberGet({"editor", "viewer"})
    \/ MemberCheck
    \/ MemberCreate
    \/ AttachGet(PlainForm)
    \/ AttachCount
    \/ AttachCreate

SpecRace == StartOn(Populated) /\ [][NextRace]_vars

\* The requests that a permission or validation check may refuse, one at a
\* time, on the project, team and asset of one user.
NextReject ==
    \/ ProjectCreateFrom(OneTitle)
    \/ ProjectEdit
    \/ ProjectPublish
    \/ ProjectDelete
    \/ ProjectComment
    \/ TeamCreate
    \/ TeamAddMemberFrom({"viewer"})
    \/ MediaEdit
    \/ MediaDelete
    \/ AddMediaToProjectFrom(PlainForm)
    \/ RemoveMediaFromProject

SpecReject == StartOn(Populated) /\ [][NextReject]_vars

\* A publish or edit request, cut between the read of the project row and its
\* save, next to like and detail requests on the same project that run between
\* those steps without being cut themselves.
NextCounterRace ==
    \/ ProjectCreateFrom(OneTitle)
    \/ ProjectLikeFrom({"alice"})
    \/ ProjectDetail
    \/ PublishGet({"r1"})
    \/ PublishSave
    \/ EditGet({"r1"})
    \/ EditSave
    \/ Tick

SpecCounterRace == InitWith(TwoUsers) /\ [][NextCounterRace]_vars

----------------------------------------------------------------------------
(* Properties *)

AllActors == Users \cup {AnonymousUser}

\* The rows of table rel that tie project slug to user or asset x.
MembershipOf(team, user) == {m \in memberships : m.team = team /\ m.user = user}
AssociationsOf(slug) == {a \in assocs : a.project = slug}
LikesOf(slug, user) == {l \in likes : l.project = slug /\ l.user = user}

\* C1: for every project and its (authenticated) creator, Project.can_view is
\* true whatever is_public, status and team are, so project_detail renders the
\* project for its creator.
C1_CreatorCanView ==
    \A s \in DOMAIN projects :
        LET creator == projects[s].creator IN
        is_authenticated(creator) =>
            /\ can_view(DB, s, creator)
            /\ project_detail(DB, creator, s).resp.kind = "render"

\* C1 happens: a private, archived project without a team has been rendered by
\* project_detail (only its creator passes can_view there).
C1_Witness ==
    /\ resp.view = "project_detail" /\ resp.kind = "render"
    /\ \E s \in DOMAIN projects :
        /\ ~projects[s].is_public
        /\ projects[s].team = None
        /\ projects[s].status = "archived"
        /\ projects[s].view_count > 0

\* C2: Project.can_view(U) is true exactly when the project is public, or U is
\* authenticated and the creator, or U is authenticated and the project has a
\* team with a membership row (of any role) for U; so for a private project it
\* is false for the anonymous actor and for a user who is neither creator nor
\* member of the project's team.
C2_CanViewExactly ==
    \A s \in DOMAIN projects : \A u \in AllActors :
        LET P == projects[s] IN
        can_view(DB, s, u) <=>
            \/ P.is_public
            \/ u \in Users /\ P.creator = u
            \/ u \in Users /\ \E t \in P.team : MembershipOf(t, u) # {}

\* C2 happens: a private project of a team has a member of role viewer who is
\* not the creator and passes can_view, the anonymous actor does not, and
\* project_detail has just answered not-found.
C2_Witness ==
    /\ resp.view = "project_detail" /\ resp.kind = "not_found"
    /\ \E s \in DOMAIN projects : \E u \in users :
        /\ ~projects[s].is_public
        /\ projects[s].team # None
        /\ projects[s].creator # u
        /\ \E m \in MembershipOf(Val(projects[s].team), u) : m.role = "viewer"
        /\ can_view(DB, s, u)
        /\ ~can_view(DB, s, AnonymousUser)

\* Project.can_edit(U) is true exactly when U is authenticated and is the creator
\* or holds an owner or editor membership in the project's team.
CanEditExactly ==
    \A s \in DOMAIN projects : \A u \in AllActors :
        LET P == projects[s] IN
        can_edit(DB, s, u) <=>
            /\ u \in Users
            /\ \/ P.creator = u
               \/ \E t \in P.team : \E m \in MembershipOf(t, u) : m.role \in {"owner", "editor"}

\* C3 as stated: can_edit is exactly as above, and every member of role viewer or
\* commenter of the team of a private project can view it and cannot edit it.
C3_Original ==
    /\ CanEditExactly
    /\ \A s \in DOMAIN projects : \A t \in projects[s].team : \A m \in memberships :
        (~projects[s].is_public /\ m.team = t /\ m.role \in {"viewer", "commenter"}) =>
            can_view(DB, s, m.user) /\ ~can_edit(DB, s, m.user)

\* C3 as amended: can_edit is exactly as above, and every member of role viewer or
\* commenter of the team of a private project who is not the project's creator
\* can view it and cannot edit it.
C3_CanEditExactly ==
    /\ CanEditExactly
    /\ \A s \in DOMAIN projects : \A t \in projects[s].team : \A m \in memberships :
        (~projects[s].is_public /\ m.team = t /\ m.role \in {"viewer", "commenter"}
           /\ m.user # projects[s].creator) =>
            /\ can_view(DB, s, m.user) /\ ~can_edit(DB, s, m.user)
            /\ project_edit(DB, m.user, s, "POST", TRUE).db = DB

\* C3 happens: a private project of a team has a member of role viewer who is
\* not its creator, and project_edit has just refused a request.
C3_Witness ==
    /\ resp.view = "project_edit" /\ resp.level = "error"
    /\ \E s \in DOMAIN projects : \E t \in projects[s].team : \E m \in memberships :
        /\ ~projects[s].is_public
        /\ m.team = t /\ m.role = "viewer" /\ m.user # projects[s].creator

\* C4: project_publish on a draft project the actor may edit sets status to
\* published and published_at to a timestamp, and project_publish on a project
\* that is already published and stamped leaves published_at at that stamp.
C4_PublishedAtStampedOnce ==
    \A s \in DOMAIN projects : \A u \in users :
        LET P == projects[s]
            after == project_publish(DB, now, u, s).db.projects[s]
        IN  can_edit(DB, s, u) =>
              /\ P.status = "draft" =>
                    after.status = "published" /\ after.published_at # None
              /\ (P.status = "published" /\ P.published_at # None) =>
                    after.published_at = P.published_at

\* C5 as stated: two project_like requests in succession by one user on one
\* project return like_count to its value and leave no Like row for the pair.
C5_Original ==
    \A s \in DOMAIN projects : \A u \in users :
        LET once == project_like(DB, u, s).db
            twice == project_like(once, u, s).db
        IN  /\ twice.projects[s].like_count = projects[s].like_count
            /\ ~\E l \in twice.likes : l.project = s /\ l.user = u

\* C5 as amended: two project_like requests in succession by one user who has
\* no Like row for the project return like_count to its value and leave no Like
\* row for the pair; if the user had a Like row, the second request creates it
\* again.
C5_ToggleTwice ==
    \A s \in DOMAIN projects : \A u \in users :
        LET once == project_like(DB, u, s).db
            twice == project_like(once, u, s).db
            liked(d) == \E l \in d.likes : l.project = s /\ l.user = u
        IN  /\ LikesOf(s, u) = {} =>
                /\ liked(once)
                /\ once.projects[s].like_count = projects[s].like_count + 1
                /\ twice.projects[s].like_count = projects[s].like_count
                /\ twice.likes = likes
            /\ LikesOf(s, u) # {} =>
                /\ ~liked(once)
                /\ liked(twice)

\* C5 happens: project_like has just removed a like, after which the project
\* has no Like row and a counter of zero (the like was set and taken back).
C5_Witness ==
    /\ resp.view = "project_like" /\ resp.text = "Like removed."
    /\ \E s \in DOMAIN projects :
        /\ projects[s].like_count = 0
        /\ \A l \in likes : l.project # s

\* In every state the project and media of an association identify it.
AssociationUnique ==
    \A a, b \in assocs : (a.project = b.project /\ a.media = b.media) => a = b

\* C6: add_media_to_project for an asset already attached to the project changes
\* nothing (the association keeps its order, caption and is_cover and stays the
\* only one for the asset), and for a request that passes the permission and
\* ownership checks it ends with the constraint error.
C6_DuplicateAttachFails ==
    /\ AssociationUnique
    /\ \A s \in DOMAIN projects : \A m \in MediaIds :
        (\E a \in assocs : a.project = s /\ a.media = m) =>
            \A u \in AllActors : \A me \in Methods : \A f \in AssocInputs :
                LET r == add_media_to_project(DB, u, s, me, m, f) IN
                /\ r.db = DB
                /\ (u \in users /\ can_edit(DB, s, u) /\ me = "POST"
                      /\ m \in DOMAIN media /\ media[m].owner = u) =>
                        /\ r.resp.level = "error"
                        /\ r.resp.text = "Error adding media: IntegrityError"

\* C6 happens: add_media_to_project has just ended with the constraint error and
\* the project holds the one association.
C6_Witness ==
    /\ resp.view = "add_media_to_project"
    /\ resp.text = "Error adding media: IntegrityError"
    /\ \E a \in assocs : \A b \in assocs : b.project = a.project => b = a

\* C7: team_add_member naming a user who already has a membership in the team
\* creates no row and changes no role, and for the team owner's POST it ends
\* with the warning.
C7_ExistingMemberNotAdded ==
    \A pk \in DOMAIN teams : \A n \in Usernames :
        MembershipOf(pk, n) # {} =>
            \A u \in AllActors : \A me \in Methods : \A ro \in RoleInputs :
                LET r == team_add_member(DB, u, pk, me, n, ro) IN
                /\ r.db = DB
                /\ (u = teams[pk].owner /\ me = "POST") =>
                        /\ r.resp.level = "warning"
                        /\ r.resp.text = "User is already a team member."

\* C7 happens: team_add_member has just ended with the warning.
C7_Witness ==
    /\ resp.view = "team_add_member" /\ resp.level = "warning"
    /\ \E m \in memberships : m.role # "owner"

\* C8: every Team row has a Membership row for its owner with role owner, in
\* every reachable state.
C8_TeamHasOwnerMembership ==
    \A pk \in DOMAIN teams :
        \E m \in memberships : m.team = pk /\ m.user = teams[pk].owner /\ m.role = "owner"

\* C9: a successful add_media_to_project on a project with k associations adds
\* exactly one association, of order k; remove_media_from_project removes the
\* association named and leaves every other row, with its order, as it was.
C9_AppendOrder ==
    /\ \A s \in DOMAIN projects : \A u \in AllActors : \A me \in Methods :
       \A m \in MediaIds : \A f \in AssocInputs :
            LET k == Cardinality(AssociationsOf(s))
                r == add_media_to_project(DB, u, s, me, m, f)
            IN  r.resp.level = "success" =>
                    /\ assocs \subseteq r.db.assocs
                    /\ Cardinality(r.db.assocs) = Cardinality(assocs) + 1
                    /\ \A a \in r.db.assocs \ assocs :
                            /\ a.project = s /\ a.media = m /\ a.order = k
                            /\ a.caption = f.caption /\ a.is_cover = f.is_cover
    /\ \A a \in assocs : \A u \in AllActors :
            LET r == remove_media_from_project(DB, u, a.project, a.media) IN
            r.resp.level = "success" => r.db.assocs = assocs \ {a}

\* C9 happens: remove_media_from_project has just removed the first association
\* of a project whose second association is still there with order 1.
C9_Witness ==
    /\ resp.view = "remove_media_from_project" /\ resp.level = "success"
    /\ \E s \in DOMAIN projects :
        /\ AssociationsOf(s) # {}
        /\ \A a \in AssociationsOf(s) : a.order = 1

\* C10: add_media_to_project creates an association only for an actor who
\* satisfies can_edit on the project and owns the asset; otherwise the store is
\* unchanged.
C10_AttachNeedsEditAndOwnership ==
    \A s \in Slugs : \A u \in AllActors : \A me \in Methods :
    \A m \in MediaIds : \A f \in AssocInputs :
        LET r == add_media_to_project(DB, u, s, me, m, f)
            allowed == /\ u \in users
                       /\ s \in DOMAIN projects
                       /\ \/ projects[s].creator = u
                          \/ \E t \in projects[s].team : \E x \in MembershipOf(t, u) :
                                x.role \in {"owner", "editor"}
                       /\ m \in DOMAIN media
                       /\ media[m].owner = u
        IN  /\ r.db.assocs # assocs => allowed
            /\ ~allowed => r.db = DB

\* C10 happens: add_media_to_project has just refused an asset ("Media not
\* found.") while an asset of a user other than a project's creator exists and an
\* earlier request did attach one.
C10_Witness ==
    /\ resp.view = "add_media_to_project" /\ resp.text = "Media not found."
    /\ assocs # {}
    /\ \E s \in DOMAIN projects : \E m \in DOMAIN media : media[m].owner # projects[s].creator

\* C11: team_add_member adds a Membership row only when the actor is team.owner;
\* an actor who is not team.owner changes nothing, whatever role (owner and
\* editor included) the actor's own membership in the team carries, and the
\* request of an authenticated one ends with the refusal.
C11_OnlyOwnerAddsMember ==
    \A pk \in DOMAIN teams : \A u \in AllActors : \A me \in Methods :
    \A n \in Usernames : \A ro \in RoleInputs :
        LET r == team_add_member(DB, u, pk, me, n, ro) IN
        /\ r.db.memberships # memberships => u = teams[pk].owner
        /\ u # teams[pk].owner =>
                /\ r.db = DB
                /\ u \in users => r.resp.text = "Only team owner can add members."

\* C11 happens: team_add_member has just refused a request while every user
\* other than team.owner holds a membership of role owner or editor in the team
\* (so the refused actor was one of them).
C11_Witness ==
    /\ resp.view = "team_add_member"
    /\ resp.text = "Only team owner can add members."
    /\ \E pk \in DOMAIN teams :
        /\ \A u \in users \ {teams[pk].owner} :
                \E m \in MembershipOf(pk, u) : m.role \in {"owner", "editor"}
        /\ \E m \in memberships : m.team = pk /\ m.role = "owner" /\ m.user # teams[pk].owner

\* C12: project_publish changes a project's status (to published) or its
\* published_at only for an actor who satisfies can_edit on the project, that is
\* the authenticated creator or an owner or editor member of the project's team;
\* for every other actor it leaves the store, status and published_at included,
\* unchanged.
C12_PublishNeedsCanEdit ==
    \A s \in DOMAIN projects : \A u \in AllActors :
        LET P == projects[s]
            r == project_publish(DB, now, u, s)
            after == r.db.projects[s]
            permitted == /\ u \in users
                         /\ \/ P.creator = u
                            \/ \E t \in P.team : \E m \in MembershipOf(t, u) :
                                    m.role \in {"owner", "editor"}
        IN  /\ permitted <=> can_edit(DB, s, u)
            /\ (after.status # P.status \/ after.published_at # P.published_at) => permitted
            /\ ~permitted => r.db = DB
            /\ permitted => after.status = "published"

\* C12 happens: project_publish has just refused a request on a draft project
\* of a team whose other member, of role viewer, is not the creator.
C12_Witness ==
    /\ resp.view = "project_publish" /\ resp.level = "error"
    /\ \E s \in DOMAIN projects : \E t \in projects[s].team : \E m \in MembershipOf(t, CHOOSE u \in users : u # projects[s].creator) :
        /\ m.role = "viewer"
        /\ projects[s].status = "draft"
        /\ projects[s].published_at = None

\* C13: once a project's status is archived, no request handler changes it:
\* project_publish, project_edit, project_detail and project_like by any actor
\* on an archived project leave its status archived.
C13_ArchivedIsFinal ==
    \A s \in DOMAIN projects :
        projects[s].status = "archived" =>
            \A u \in AllActors : \A me \in Methods : \A pub \in BOOLEAN :
                LET stays(d) == s \in DOMAIN d.projects => d.projects[s].status = "archived"
                IN  /\ stays(project_edit(DB, u, s, me, pub).db)
                    /\ stays(project_detail(DB, u, s).db)
                    /\ stays(project_like(DB, u, s).db)
                    /\ stays(project_publish(DB, now, u, s).db)

\* C14: for every Membership row, and for every role string a request may
\* carry, can_edit is true exactly for owner and editor, can_view exactly for
\* owner, editor, viewer and commenter, can_comment exactly for owner, editor
\* and commenter; each is false for any other role string.
C14_RoleCapabilities ==
    \A m \in memberships \cup {[id |-> 0, team |-> 0, user |-> u, role |-> ro] : u \in users, ro \in RoleInputs} :
        /\ TeamMembership_can_edit(m) <=> (m.role = "owner" \/ m.role = "editor")
        /\ TeamMembership_can_view(m) <=>
                (m.role = "owner" \/ m.role = "editor" \/ m.role = "viewer" \/ m.role = "commenter")
        /\ TeamMembership_can_comment(m) <=>
                (m.role = "owner" \/ m.role = "editor" \/ m.role = "commenter")
        /\ m.role \notin ROLE_CHOICES =>
                ~(TeamMembership_can_edit(m) \/ TeamMembership_can_view(m) \/ TeamMembership_can_comment(m))

\* C14 happens: team_add_member has stored a Membership whose role is no
\* ROLE_CHOICES entry, next to one of role viewer, and the three predicates
\* tell them and the owner's row apart.
C14_Witness ==
    /\ resp.view = "team_add_member" /\ resp.level = "success"
    /\ \E o, v, g \in memberships :
        /\ o.role = "owner" /\ v.role = "viewer" /\ g.role \notin ROLE_CHOICES
        /\ TeamMembership_can_edit(o) /\ ~TeamMembership_can_edit(v)
        /\ TeamMembership_can_view(v) /\ ~TeamMembership_can_comment(v)
        /\ ~TeamMembership_can_view(g)

\* In every state a row of each of the three tables is the only one for its pair.
LikeUnique == \A a, b \in likes : (a.project = b.project /\ a.user = b.user) => a = b
MembershipUnique == \A a, b \in memberships : (a.team = b.team /\ a.user = b.user) => a = b

\* C15: in every state reached by any interleaving of the steps of concurrent
\* project_like, add_media_to_project and team_add_member requests there is at
\* most one Like row per (project, user), at most one association per (project,
\* media) and at most one Membership per (team, user).
C15_UniqueUnderRaces ==
    /\ LikeUnique
    /\ AssociationUnique
    /\ MembershipUnique

\* C15 happens: two team_add_member requests for the same user both passed the
\* is_member check, one has inserted its row and the other is about to insert.
C15_Witness ==
    \E r, o \in Requests :
        /\ r # o
        /\ At(r, "team_add_member", "create")
        /\ inflight[o] = Idle
        /\ resp.view = "team_add_member" /\ resp.level = "success"
        /\ MembershipOf(inflight[r].team, inflight[r].username) # {}

\* A refusal: the request ends with an error message and a redirect, and the
\* store is as it was.
Refused(r) == r.db = DB /\ r.resp.kind = "redirect" /\ r.resp.level = "error"

\* C16: a request of an authenticated actor that fails the permission check of
\* its view (can_edit for project_edit, project_publish, project_delete,
\* add_media_to_project and remove_media_from_project; team.owner for
\* team_add_member; media.owner for media_edit and media_delete) or its
\* validation (no project title, no team name, empty comment) ends with an
\* error message and a redirect and leaves every table and counter unchanged.
C16_RejectedRequestChangesNothing ==
    \A u \in users : \A me \in Methods :
        /\ \A s \in DOMAIN projects : ~can_edit(DB, s, u) =>
                /\ \A pub \in BOOLEAN : Refused(project_edit(DB, u, s, me, pub))
                /\ Refused(project_publish(DB, now, u, s))
                /\ Refused(project_delete(DB, u, s, me))
                /\ \A m \in MediaIds : \A f \in AssocInputs :
                        Refused(add_media_to_project(DB, u, s, me, m, f))
                /\ \A a \in AssociationsOf(s) :
                        Refused(remove_media_from_project(DB, u, s, a.media))
        /\ \A pk \in DOMAIN teams : teams[pk].owner # u =>
                \A n \in Usernames : \A ro \in RoleInputs :
                    Refused(team_add_member(DB, u, pk, me, n, ro))
        /\ \A pk \in DOMAIN media : media[pk].owner # u =>
                /\ \A pub \in BOOLEAN : Refused(media_edit(DB, u, pk, me, pub))
                /\ Refused(media_delete(DB, u, pk, me))
        /\ Refused(project_create(DB, u, "POST", ""))
        /\ \A f \in Faults : Refused(team_create(DB, u, "POST", "", f))
        /\ \A s \in DOMAIN projects : \A c \in Contents :
                strip(c) = "" => Refused(project_comment(DB, u, s, "POST", c))

\* C16 happens: media_edit has just refused a request while the store holds a
\* published project with an association and a comment, a team with a second
\* member, and the asset.
C16_Witness ==
    /\ resp.view = "media_edit" /\ resp.level = "error" /\ resp.kind = "redirect"
    /\ assocs # {} /\ comments # {}
    /\ \E m \in memberships : m.role = "viewer"
    /\ \E s \in DOMAIN projects : projects[s].status = "published"

\* C17: in every state each association refers to an existing project and an
\* existing asset, and each like and comment to an existing project; a
\* successful project_delete leaves no association, like or comment of the
\* project, a successful media_delete no association of the asset, and neither
\* removes any other row.
C17_CascadeDelete ==
    /\ \A a \in assocs : a.project \in DOMAIN projects /\ a.media \in DOMAIN media
    /\ \A l \in likes : l.project \in DOMAIN projects
    /\ \A c \in comments : c.project \in DOMAIN projects
    /\ \A s \in DOMAIN projects : \A u \in AllActors :
            LET r == project_delete(DB, u, s, "POST") IN
            r.resp.level = "success" =>
                /\ s \notin DOMAIN r.db.projects
                /\ r.db.assocs = {a \in assocs : a.project # s}
                /\ r.db.likes = {l \in likes : l.project # s}
                /\ r.db.comments = {c \in comments : c.project # s}
                /\ r.db.media = media
    /\ \A pk \in DOMAIN media : \A u \in AllActors :
            LET r == media_delete(DB, u, pk, "POST") IN
            r.resp.level = "success" =>
                /\ pk \notin DOMAIN r.db.media
                /\ r.db.assocs = {a \in assocs : a.media # pk}
                /\ r.db.projects = projects /\ r.db.likes = likes /\ r.db.comments = comments

\* C17 happens: media_delete has just deleted the asset attached first to a
\* project: the project, which has a like and a comment, is left with the
\* association of order 1 alone.
C17_Witness ==
    /\ resp.view = "media_delete" /\ resp.level = "success"
    /\ likes # {} /\ comments # {}
    /\ \E s \in DOMAIN projects :
        /\ AssociationsOf(s) # {}
        /\ \A a \in AssociationsOf(s) : a.order = 1

\* C18: a request whose method is not POST changes no stored row, whichever of
\* project_edit, project_delete, project_comment, add_media_to_project,
\* project_publish, project_like and remove_media_from_project it goes to and
\* whoever sends it.  (The last three views do not read request.method: what
\* they do, they do for every method.)
C18_OnlyPostMutates ==
    \A me \in Methods \ {"POST"} : \A u \in AllActors : \A s \in Slugs :
        /\ \A pub \in BOOLEAN : project_edit(DB, u, s, me, pub).db = DB
        /\ project_delete(DB, u, s, me).db = DB
        /\ \A c \in Contents : project_comment(DB, u, s, me, c).db = DB
        /\ \A m \in MediaIds :
                /\ \A f \in AssocInputs : add_media_to_project(DB, u, s, me, m, f).db = DB
                /\ remove_media_from_project(DB, u, s, m).db = DB
        /\ s \in DOMAIN projects => project_like(DB, u, s).db = DB
        /\ s \in DOMAIN projects => project_publish(DB, now, u, s).db = DB

\* C19: in every state, also one reached while two register requests are
\* handled at the same time, no two User rows share a username and no two share
\* an email address.
C19_UsersUnique ==
    \A a, b \in auth_user : (a.username = b.username \/ a.email = b.email) => a = b

\* The store after one project_like request of user on project slug whose
\* steps run with no step of another request in between.
ProjectLikeAlone(db, user, slug) ==
    LET got == project_like_get(db, user, slug)
        filtered == project_like_filter(got.db, got.req)
        toggled == IF filtered.req.pc = "delete" THEN project_like_delete(filtered.db, filtered.req)
                   ELSE project_like_create(filtered.db, filtered.req, {})
    IN  project_like_save(toggled.db, toggled.req).db

\* like_count of project slug is the number of its Like rows in store db.
CountMatches(db, slug) ==
    db.projects[slug].like_count = Cardinality({l \in db.likes : l.project = slug})

\* C20: like_count differs from the number of Like rows only through the
\* interleaving of two project_like requests of one user: from a state with no
\* request in hand where the two agree, a project_like request that runs alone
\* leaves them in agreement (and toggles the user's Like row), while the states
\* that two interleaved requests of the user reach include ones with no request
\* in hand where they disagree (C20_Witness).
C20_LikeCountDriftsOnlyByRace ==
    \A s \in DOMAIN projects :
        (Quiescent /\ CountMatches(DB, s)) =>
            LET after == ProjectLikeAlone(DB, "alice", s) IN
            /\ CountMatches(after, s)
            /\ (LikesOf(s, "alice") = {}) <=> (\E l \in after.likes : l.project = s /\ l.user = "alice")

\* C20 happens: no request is in hand, the last one answered was a
\* project_like (all of them are the same user's), and like_count of a project
\* is not the number of its Like rows.
C20_Witness ==
    /\ Quiescent
    /\ resp.view = "project_like"
    /\ \E s \in DOMAIN projects : ~CountMatches(DB, s)

\* C21: no handler changes the Like rows, the like_count or the comments of a
\* project on behalf of an actor for whom can_view on the project is false:
\* project_like and project_comment of such an actor leave the store unchanged.
C21_NoMutationWithoutCanView ==
    \A s \in DOMAIN projects : \A u \in AllActors :
        ~can_view(DB, s, u) =>
            /\ project_like(DB, u, s).db = DB
            /\ \A c \in Contents : project_comment(DB, u, s, "POST", c).db = DB

\* C22: no request ends with an unhandled fault: a constraint violation or a
\* missing row met by a handler is answered with a message or a not-found
\* response, never with the server's error response.
C22_NoUnhandledFault ==
    resp.kind # "server_error"

\* C23: no two associations of one project carry the same order value, so that
\* an association added later comes after every association already attached.
C23_OrderValuesUnique ==
    \A a, b \in assocs : (a.project = b.project /\ a.order = b.order) => a = b

\* C24: published_at is set only on publish: a project created by
\* project_create has status draft and published_at null, project_edit never
\* changes published_at, and every project whose status is published has a
\* non-null published_at.
C24_PublishedAtOnlyOnPublish ==
    /\ \A u \in AllActors : \A me \in Methods : \A t \in Titles :
            LET r == project_create(DB, u, me, t) IN
            r.resp.level = "success" =>
                /\ r.db.projects[slugify(t)].status = "draft"
                /\ r.db.projects[slugify(t)].published_at = None
    /\ \A s \in DOMAIN projects : \A u \in AllActors : \A me \in Methods : \A pub \in BOOLEAN :
            project_edit(DB, u, s, me, pub).db.projects[s].published_at = projects[s].published_at
    /\ \A s \in DOMAIN projects :
            projects[s].status = "published" => projects[s].published_at # None

\* C25: when requests run one at a time, from a newly created project on,
\* like_count is the number of Like rows of the project after every request,
\* for any sequence of project_like, project_edit, project_publish and
\* project_detail requests by any users.
C25_LikeCountIsRowCount ==
    \A s \in DOMAIN projects : CountMatches(DB, s)

\* C25 happens: a like has just been taken back from a published, viewed
\* project that another user still likes.
C25_Witness ==
    /\ resp.view = "project_like" /\ resp.text = "Like removed."
    /\ \E s \in DOMAIN projects :
        /\ projects[s].status = "published"
        /\ projects[s].view_count > 0
        /\ projects[s].like_count = 1
        /\ \E l \in likes : l.project = s

\* C26: project_publish and project_edit never change a project's like_count
\* or view_count, also when they interleave with project_like or
\* project_detail requests on the same project: the step in which a publish or
\* edit request writes the project and ends leaves both counters of every
\* project as they are in the store.
C26_PublishAndEditKeepCounters ==
    [][\A r \in Requests :
          (/\ inflight[r].view \in {"project_publish", "project_edit"}
           /\ inflight[r].pc = "save"
           /\ inflight'[r] = Idle)
          => \A s \in DOMAIN projects :
                /\ projects'[s].like_count = projects[s].like_count
                /\ projects'[s].view_count = projects[s].view_count]_vars

\* C27: for every project and every user, can_edit(user) implies
\* can_view(user): an actor for whom can_view is false has no edit, publish or
\* delete request carried out on the project.
C27_CanEditImpliesCanView ==
    \A s \in DOMAIN projects : \A u \in AllActors :
        /\ can_edit(DB, s, u) => can_view(DB, s, u)
        /\ ~can_view(DB, s, u) =>
            /\ \A me \in Methods : \A pub \in BOOLEAN : project_edit(DB, u, s, me, pub).db = DB
            /\ project_publish(DB, now, u, s).db = DB
            /\ \A me \in Methods : project_delete(DB, u, s, me).db = DB

\* C27 happens: an edit has just succeeded on a private team project in whose
\* team a user other than the creator is an editor (can_edit and can_view both
\* hold for that member through the team), next to an actor who can neither.
C27_Witness ==
    /\ resp.view = "project_edit" /\ resp.level = "success"
    /\ \E s \in DOMAIN projects : \E u \in users : \E v \in AllActors :
        /\ ~projects[s].is_public
        /\ projects[s].team # None
        /\ u # projects[s].creator
        /\ can_edit(DB, s, u) /\ can_view(DB, s, u)
        /\ ~can_edit(DB, s, v) /\ ~can_view(DB, s, v)

\* C28: after any sequence of team_create and team_add_member requests, every
\* team has exactly one Membership whose role is owner, that membership
\* belongs to team.owner, and every Membership's role is one of owner, editor,
\* viewer, commenter.
C28_OneOwnerAndValidRoles ==
    /\ \A pk \in DOMAIN teams :
        LET owners == {m \in memberships : m.team = pk /\ m.role = "owner"} IN
        /\ Cardinality(owners) = 1
        /\ \A m \in owners : m.user = teams[pk].owner
    /\ \A m \in memberships : m.role \in ROLE_CHOICES

\* C29: media_edit changes an asset (its title, description and is_public are
\* written by one save, is_public standing for the three) and media_delete
\* destroys it only when the acting user is the asset's owner; media_detail
\* changes nothing, shows an asset with is_public false only to its owner and
\* answers not-found to every other user.
C29_AssetOwnerOnly ==
    \A pk \in DOMAIN media : \A u \in AllActors :
        /\ media[pk].owner # u =>
                \A me \in Methods :
                    /\ \A pub \in BOOLEAN : media_edit(DB, u, pk, me, pub).db = DB
                    /\ media_delete(DB, u, pk, me).db = DB
        /\ media[pk].owner = u =>
                /\ \A pub \in BOOLEAN :
                        media_edit(DB, u, pk, "POST", pub).db.media[pk].is_public = pub
                /\ pk \notin DOMAIN media_delete(DB, u, pk, "POST").db.media
        /\ media_detail(DB, u, pk).db = DB
        /\ ~media[pk].is_public =>
                /\ media_detail(DB, u, pk).resp.kind = "render" <=> media[pk].owner = u
                /\ (u \in users /\ media[pk].owner # u) =>
                        media_detail(DB, u, pk).resp.kind = "not_found"

\* C29 happens: media_detail has just answered not-found although every asset
\* id is in the store, so the request was for a private asset of another user;
\* the store also holds an asset its owner has made public.
C29_Witness ==
    /\ resp.view = "media_detail" /\ resp.kind = "not_found"
    /\ DOMAIN media = MediaIds
    /\ \E pk \in DOMAIN media : ~media[pk].is_public
    /\ \E pk \in DOMAIN media : media[pk].is_public

\* The projects a response lists (none if it is not a listing page).
Listed(r) == IF r.resp.kind = "render" THEN r.resp.projects ELSE {}

\* The projects with is_public true and status published.
PublicPublished == {s \in DOMAIN projects : projects[s].is_public /\ projects[s].status = "published"}

\* C30: the listings of browse_projects and of profile_view contain only
\* projects with is_public true and status published, for any actor and any
\* search, category or sort parameter (a private, draft or archived project is
\* in none of them); browse_projects without category and search lists all of
\* these projects, profile_view those the user created.
C30_ListingsOnlyPublicPublished ==
    /\ \A c \in Matches : \A q \in Matches : \A o \in SortInputs :
            Listed(browse_projects(DB, c, q, o)) \subseteq PublicPublished
    /\ \A o \in SortFields : Listed(browse_projects(DB, None, None, o)) = PublicPublished
    /\ \A u \in AllActors : \A n \in Usernames : \A p \in Portfolios :
            /\ Listed(profile_view(DB, u, n, p)) \subseteq PublicPublished
            /\ (n \in users /\ p = "public") =>
                    Listed(profile_view(DB, u, n, p)) = {s \in PublicPublished : projects[s].creator = n}

\* C30 happens: browse_projects has just listed a project while the store also
\* holds a public project that is archived and does not appear.
C30_Witness ==
    /\ resp.view = "browse_projects" /\ resp.kind = "render"
    /\ resp.projects # {}
    /\ \E s \in DOMAIN projects :
        /\ projects[s].is_public /\ projects[s].status = "archived"
        /\ s \notin resp.projects

====
